---- MODULE Spec2Model ----
(***************************************************************************)
(* Data-Visualization-Analyzer: the chart dispatcher                       *)
(* (visualization_engine.py), the statistics reporter (data_analyzer.py)   *)
(* and the Tk shell that owns the loaded table (gui_components.py).        *)
(*                                                                         *)
(* The user-visible texts of the program are Chinese; the module keeps     *)
(* one ASCII rendering per text.                                           *)
(***************************************************************************)
EXTENDS Naturals, Integers, Sequences, FiniteSets, TLC

VARIABLES
    \* ---- pure-function harness (SpecCore) ----
    table,          \* the DataFrame handed to the engine / the analyzer
    request,        \* the chart request handed to create_chart
    outcome,        \* what the last call returned or raised
    \* ---- the shell, DataVisualizationApp (Spec) ----
    current_data,   \* self.current_data
    stack,          \* callbacks that have started and not yet returned
    file_format,    \* self.file_format combobox text
    file_path_var,  \* self.file_path_var
    axis_values,    \* self.x_axis['values'] (= y_axis, = group_by minus "")
    x_axis,         \* self.x_axis selection
    y_axis,         \* self.y_axis selection
    group_by,       \* self.group_by selection
    chart_type,     \* self.chart_type radio variable
    status_var,     \* self.status_var
    figure,         \* what self.figure holds
    analysis_text,  \* content of self.analysis_text
    dialog,         \* the last messagebox shown
    exported,       \* what the last successful export wrote
    events          \* number of callbacks the event loop has dispatched

coreVars  == <<table, request, outcome>>
shellVars == <<current_data, stack, file_format, file_path_var, axis_values,
               x_axis, y_axis, group_by, chart_type, status_var, figure,
               analysis_text, dialog, exported, events>>
vars      == <<table, request, outcome, current_data, stack, file_format,
               file_path_var, axis_values, x_axis, y_axis, group_by,
               chart_type, status_var, figure, analysis_text, dialog,
               exported, events>>

(***************************************************************************)
(* Bounds                                                                  *)
(***************************************************************************)
MaxCols == 2
MaxRows == 2
MaxDepth == 2
MaxEvents == 3

(***************************************************************************)
(* Tables.  A DataFrame is an ordered sequence of uniquely named columns,  *)
(* each with a dtype (numeric or not) and one cell per row.                *)
(***************************************************************************)
None == "None"

\* self.current_data = None: no table loaded
NoTable == [cols |-> <<>>, nrows |-> 0, none |-> TRUE]
NaN == 0

ColNames == <<"a", "b", "c", "d", "e">>

\* cell sequences of a column of n rows: all missing, one repeated value,
\* all values different
ColVals(n) ==
    { [i \in 1..n |-> NaN], [i \in 1..n |-> 1], [i \in 1..n |-> i] }

TablesOf(maxc, maxr) ==
    UNION { UNION { { [cols |-> [i \in 1..k |->
                                   [name |-> ColNames[i],
                                    numeric |-> f[i].numeric,
                                    vals |-> f[i].vals]],
                       nrows |-> n]
                      : f \in [1..k -> [numeric : BOOLEAN, vals : ColVals(n)]] }
                    : k \in 0..maxc }
            : n \in 0..maxr }

CoreTables == TablesOf(MaxCols, MaxRows)

Columns(data) == [i \in 1..Len(data.cols) |-> data.cols[i].name]

ColumnSet(data) == { data.cols[i].name : i \in 1..Len(data.cols) }

HasCol(data, c) == c \in ColumnSet(data)

Col(data, c) ==
    data.cols[CHOOSE i \in 1..Len(data.cols) : data.cols[i].name = c]

\* Python truthiness of a column argument: None and "" are falsy
Truthy(v) == v # None /\ v # ""

RECURSIVE SelectSeq2(_, _)
SelectSeq2(s, keep) ==
    IF s = <<>> THEN <<>>
    ELSE IF keep[1] THEN <<Head(s)>> \o SelectSeq2(Tail(s), Tail(keep))
         ELSE SelectSeq2(Tail(s), Tail(keep))

\* data.select_dtypes(include=[np.number])
NumericData(data) ==
    [cols |-> SelectSeq2(data.cols,
                         [i \in 1..Len(data.cols) |-> data.cols[i].numeric]),
     nrows |-> data.nrows]

\* DataFrame.empty: any axis of length 0
Empty(df) == Len(df.cols) = 0 \/ df.nrows = 0

RECURSIVE SortedSeq(_)
SortedSeq(S) ==
    IF S = {} THEN <<>>
    ELSE LET m == CHOOSE v \in S : \A w \in S : v <= w
         IN  <<m>> \o SortedSeq(S \ {m})

\* the keys of data.groupby(c) / data[c].value_counts(): the distinct
\* non-missing values of column c
Groups(data, c) ==
    SortedSeq({ Col(data, c).vals[r] : r \in 1..data.nrows } \ {NaN})

RowsOf(data, c, v) ==
    SortedSeq({ r \in 1..data.nrows : Col(data, c).vals[r] = v })

AllRows(data) == [r \in 1..data.nrows |-> r]

(***************************************************************************)
(* Chart dispatcher (visualization_engine.py).  A strategy either raises   *)
(* or returns the rendering calls it made on the axes.  Calls into the     *)
(* plotting collaborator are taken to succeed on columns that exist.       *)
(***************************************************************************)
SupportedKinds == {"line", "bar", "scatter", "pie", "area", "box", "heatmap",
                   "distplot", "violin", "pairplot"}

MsgUnsupported      == "unsupported chart type: "
MsgCreateFailed     == "create chart failed: "
MsgHeatmapNoNumeric == "no numeric data for heatmap"
MsgPairNoNumeric    == "no numeric data for pair plot"
MsgPairNeedTwo      == "need at least two numeric variables for pair plot"
MsgNotInterpreted   == "Could not interpret value "

NoLabel == 0

Raise(type, text) == [raised |-> TRUE, type |-> type, text |-> text,
                      calls |-> <<>>]
Ok(calls) == [raised |-> FALSE, type |-> "", text |-> <<>>, calls |-> calls]

KeyError(c) == Raise("KeyError", <<c>>)

\* data[x_col], data[y_col] evaluated in this order
Lookup2(data, x_col, y_col, calls) ==
    IF ~HasCol(data, x_col) THEN KeyError(x_col)
    ELSE IF ~HasCol(data, y_col) THEN KeyError(y_col)
    ELSE Ok(calls)

Call(fn, x, y, rows, label) ==
    [fn |-> fn, x |-> x, y |-> y, rows |-> rows, label |-> label]

Legend == Call("legend", "", "", <<>>, NoLabel)

GroupedCalls(fn, data, x_col, y_col, group_col) ==
    LET names == Groups(data, group_col)
    IN  [g \in 1..Len(names) |->
            Call(fn, x_col, y_col, RowsOf(data, group_col, names[g]),
                 names[g])]

\* variant: the guard tests only "if group_col", so groupby meets a missing key
create_line_chart_NoPresenceCheck(data, x_col, y_col, group_col) ==
    IF Truthy(group_col)
    THEN IF ~HasCol(data, group_col) THEN KeyError(group_col)
         ELSE IF Groups(data, group_col) = <<>>
         THEN Ok(<<Legend>>)
         ELSE Lookup2(data, x_col, y_col,
                      GroupedCalls("plot", data, x_col, y_col, group_col)
                          \o <<Legend>>)
    ELSE Lookup2(data, x_col, y_col,
                 <<Call("plot", x_col, y_col, AllRows(data), NoLabel)>>)

\* variant: every series of the grouped chart plots the whole table
create_line_chart_PlotsAllRows(data, x_col, y_col, group_col) ==
    IF Truthy(group_col) /\ HasCol(data, group_col)
    THEN IF Groups(data, group_col) = <<>>
         THEN Ok(<<Legend>>)
         ELSE Lookup2(data, x_col, y_col,
                      [g \in 1..Len(Groups(data, group_col)) |->
                          Call("plot", x_col, y_col, AllRows(data),
                               Groups(data, group_col)[g])]
                          \o <<Legend>>)
    ELSE Lookup2(data, x_col, y_col,
                 <<Call("plot", x_col, y_col, AllRows(data), NoLabel)>>)

create_line_chart(data, x_col, y_col, group_col) ==
    IF Truthy(group_col) /\ HasCol(data, group_col)
    THEN IF Groups(data, group_col) = <<>>
         THEN Ok(<<Legend>>)
         ELSE Lookup2(data, x_col, y_col,
                      GroupedCalls("plot", data, x_col, y_col, group_col)
                          \o <<Legend>>)
    ELSE Lookup2(data, x_col, y_col,
                 <<Call("plot", x_col, y_col, AllRows(data), NoLabel)>>)

\* pivot_table(values=y_col, index=x_col, columns=group_col) checks the
\* values key first
\* (values=None means every remaining column, index=None no index key)
PivotCalls(fn, data, x_col, y_col, group_col) ==
    IF y_col # None /\ ~HasCol(data, y_col) THEN KeyError(y_col)
    ELSE IF x_col # None /\ ~HasCol(data, x_col) THEN KeyError(x_col)
    ELSE Ok(<<Call(fn, x_col, y_col, AllRows(data), NoLabel), Legend>>)

create_bar_chart(data, x_col, y_col, group_col) ==
    IF Truthy(group_col) /\ HasCol(data, group_col)
    THEN PivotCalls("pivot_bar", data, x_col, y_col, group_col)
    ELSE Lookup2(data, x_col, y_col,
                 <<Call("bar", x_col, y_col, AllRows(data), NoLabel)>>)

create_scatter_chart(data, x_col, y_col, group_col) ==
    IF Truthy(group_col) /\ HasCol(data, group_col)
    THEN IF Groups(data, group_col) = <<>>
         THEN Ok(<<Legend>>)
         ELSE Lookup2(data, x_col, y_col,
                      GroupedCalls("scatter", data, x_col, y_col, group_col)
                          \o <<Legend>>)
    ELSE Lookup2(data, x_col, y_col,
                 <<Call("scatter", x_col, y_col, AllRows(data), NoLabel)>>)

create_pie_chart(data, x_col) ==
    IF ~HasCol(data, x_col) THEN KeyError(x_col)
    ELSE Ok(<<Call("pie", x_col, "", AllRows(data), NoLabel)>>)

create_area_chart(data, x_col, y_col, group_col) ==
    IF Truthy(group_col) /\ HasCol(data, group_col)
    THEN PivotCalls("pivot_area", data, x_col, y_col, group_col)
    ELSE Lookup2(data, x_col, y_col,
                 <<Call("fill_between", x_col, y_col, AllRows(data), NoLabel),
                   Call("plot", x_col, y_col, AllRows(data), NoLabel)>>)

\* seaborn resolves x= and y= against the frame and rejects unknown names
SeabornXY(fn, data, x_col, y_col) ==
    IF ~HasCol(data, x_col)
    THEN Raise("ValueError", <<MsgNotInterpreted, x_col>>)
    ELSE IF ~HasCol(data, y_col)
    THEN Raise("ValueError", <<MsgNotInterpreted, y_col>>)
    ELSE Ok(<<Call(fn, x_col, y_col, AllRows(data), NoLabel)>>)

SeabornOne(fn, data, x_col, y_col) ==
    LET column == IF Truthy(x_col) THEN x_col ELSE y_col
    IN  IF ~HasCol(data, column) THEN KeyError(column)
        ELSE Ok(<<Call(fn, column, "", AllRows(data), NoLabel)>>)

create_box_plot(data, x_col, y_col) ==
    IF Truthy(x_col) /\ Truthy(y_col)
    THEN SeabornXY("boxplot", data, x_col, y_col)
    ELSE SeabornOne("boxplot", data, x_col, y_col)

create_heatmap(data) ==
    LET numeric_data == NumericData(data)
    IN  IF Empty(numeric_data)
        THEN Raise("ValueError", <<MsgHeatmapNoNumeric>>)
        ELSE Ok(<<Call("heatmap", "", "", AllRows(data), NoLabel)>>)

\* histplot(data=data, x=None) falls back to the wide form of the frame
create_distribution_plot(data, x_col) ==
    IF x_col = None
    THEN Ok(<<Call("histplot", "", "", AllRows(data), NoLabel)>>)
    ELSE IF ~HasCol(data, x_col)
    THEN Raise("ValueError", <<MsgNotInterpreted, x_col>>)
    ELSE Ok(<<Call("histplot", x_col, "", AllRows(data), NoLabel)>>)

create_violin_plot(data, x_col, y_col) ==
    IF Truthy(x_col) /\ Truthy(y_col)
    THEN SeabornXY("violinplot", data, x_col, y_col)
    ELSE SeabornOne("violinplot", data, x_col, y_col)

\* the label field of the scatterplot call carries whether hue= was given
Hue == 1

create_pair_plot(data, group_col) ==
    LET numeric_data == NumericData(data)
    IN  IF Empty(numeric_data)
        THEN Raise("ValueError", <<MsgPairNoNumeric>>)
        ELSE IF Len(numeric_data.cols) >= 2
        THEN LET col1 == numeric_data.cols[1].name
                 col2 == numeric_data.cols[2].name
             IN  IF Truthy(group_col) /\ HasCol(data, group_col)
                 THEN Ok(<<Call("scatterplot", col1, col2, AllRows(data), Hue)>>)
                 ELSE Ok(<<Call("scatterplot", col1, col2, AllRows(data),
                                NoLabel)>>)
        ELSE Raise("ValueError", <<MsgPairNeedTwo>>)

\* variant: the final else falls back to a line chart instead of raising
Dispatch_DefaultLine(data, kind, x_col, y_col, group_col) ==
    CASE kind = "bar"      -> create_bar_chart(data, x_col, y_col, group_col)
      [] kind = "scatter"  -> create_scatter_chart(data, x_col, y_col, group_col)
      [] kind = "pie"      -> create_pie_chart(data, x_col)
      [] kind = "area"     -> create_area_chart(data, x_col, y_col, group_col)
      [] kind = "box"      -> create_box_plot(data, x_col, y_col)
      [] kind = "heatmap"  -> create_heatmap(data)
      [] kind = "distplot" -> create_distribution_plot(data, x_col)
      [] kind = "violin"   -> create_violin_plot(data, x_col, y_col)
      [] kind = "pairplot" -> create_pair_plot(data, group_col)
      [] OTHER             -> create_line_chart(data, x_col, y_col, group_col)

\* the if/elif chain of create_chart
Dispatch(data, kind, x_col, y_col, group_col) ==
    CASE kind = "line"     -> create_line_chart(data, x_col, y_col, group_col)
      [] kind = "bar"      -> create_bar_chart(data, x_col, y_col, group_col)
      [] kind = "scatter"  -> create_scatter_chart(data, x_col, y_col, group_col)
      [] kind = "pie"      -> create_pie_chart(data, x_col)
      [] kind = "area"     -> create_area_chart(data, x_col, y_col, group_col)
      [] kind = "box"      -> create_box_plot(data, x_col, y_col)
      [] kind = "heatmap"  -> create_heatmap(data)
      [] kind = "distplot" -> create_distribution_plot(data, x_col)
      [] kind = "violin"   -> create_violin_plot(data, x_col, y_col)
      [] kind = "pairplot" -> create_pair_plot(data, group_col)
      [] OTHER             -> Raise("ValueError", <<MsgUnsupported, kind>>)

NoLabels == [xlabel |-> "", ylabel |-> "", title |-> ""]

chart_names(kind) ==
    CASE kind = "line"     -> "line chart"
      [] kind = "bar"      -> "bar chart"
      [] kind = "scatter"  -> "scatter chart"
      [] kind = "pie"      -> "pie chart"
      [] kind = "area"     -> "area chart"
      [] kind = "box"      -> "box plot"
      [] kind = "heatmap"  -> "heatmap"
      [] kind = "distplot" -> "distribution plot"
      [] kind = "violin"   -> "violin plot"
      [] kind = "pairplot" -> "scatter chart"
      [] OTHER             -> "chart"

set_chart_labels(kind, x_col, y_col) ==
    [xlabel |-> IF Truthy(x_col) THEN x_col ELSE "",
     ylabel |-> IF Truthy(y_col) THEN y_col ELSE "",
     title  |-> chart_names(kind)]

\* create_chart: the result of the call, seen by the caller
create_chart(data, kind, x_col, y_col, group_col) ==
    LET r == Dispatch(data, kind, x_col, y_col, group_col)
    IN  IF r.raised
        THEN [raised |-> TRUE, type |-> "Exception",
              text |-> <<MsgCreateFailed>> \o r.text,
              calls |-> r.calls, labeled |-> FALSE, labels |-> NoLabels]
        ELSE [raised |-> FALSE, type |-> "", text |-> <<>>,
              calls |-> r.calls, labeled |-> TRUE,
              labels |-> set_chart_labels(kind, x_col, y_col)]

(***************************************************************************)
(* Statistics reporter (data_analyzer.py).  A result is either a bare      *)
(* message or a report: a header followed by its body.                     *)
(***************************************************************************)
MsgCorrNoNumeric    == "no numeric data for correlation analysis"
MsgCorrNeedTwo      == "need at least two numeric variables for correlation analysis"
MsgOutlierNoNumeric == "no numeric data for outlier detection"
HdrCorrelation      == "=== correlation analysis ==="
HdrOutliers         == "=== outlier detection ==="

Message(text) == [kind |-> "message", header |-> "", text |-> text,
                  body |-> <<>>]
Report(header, body) == [kind |-> "report", header |-> header, text |-> "",
                         body |-> body]

RECURSIVE SumFn(_, _)
\* sum of f over the index set S
SumFn(f, S) ==
    IF S = {} THEN 0
    ELSE LET r == CHOOSE r \in S : TRUE
         IN  f[r] + SumFn(f, S \ {r})

\* DataFrame.corr() on one pair of columns: Pearson over the rows where
\* both hold a value (min_periods = 1), as sums of products of deviations
\* from the mean; with n such rows every deviation is kept times n and
\* each sum is divided by n, so cov, vx and vy are n times the sums the
\* library holds.  The coefficient is NaN when there is no such row or a
\* variance is 0.
Pearson(xs, ys) ==
    LET rows == { r \in 1..Len(xs) : xs[r] # NaN /\ ys[r] # NaN }
        n    == Cardinality(rows)
        sx   == SumFn(xs, rows)
        sy   == SumFn(ys, rows)
        dx   == [r \in rows |-> n * xs[r] - sx]
        dy   == [r \in rows |-> n * ys[r] - sy]
        cov  == IF n = 0 THEN 0
                ELSE SumFn([r \in rows |-> dx[r] * dy[r]], rows) \div n
        vx   == IF n = 0 THEN 0
                ELSE SumFn([r \in rows |-> dx[r] * dx[r]], rows) \div n
        vy   == IF n = 0 THEN 0
                ELSE SumFn([r \in rows |-> dy[r] * dy[r]], rows) \div n
    IN  [defined |-> n > 0 /\ vx * vy # 0, cov |-> cov, vx |-> vx, vy |-> vy]

\* variant: the threshold is met at |r| = 0.7 as well
IsStrong_AtLeast(corr) ==
    corr.defined /\ 100 * corr.cov * corr.cov >= 49 * corr.vx * corr.vy

\* abs(corr) > 0.7; false for NaN.  |r| > 0.7 iff cov^2 > 0.49 * vx * vy
IsStrong(corr) ==
    corr.defined /\ 100 * corr.cov * corr.cov > 49 * corr.vx * corr.vy

RECURSIVE StrongFrom(_, _, _)
\* the two loops over i and j > i, from (i, j) on
StrongFrom(df, i, j) ==
    IF i > Len(df.cols) THEN <<>>
    ELSE IF j > Len(df.cols) THEN StrongFrom(df, i + 1, i + 2)
    ELSE (IF IsStrong(Pearson(df.cols[i].vals, df.cols[j].vals))
          THEN <<[col1 |-> df.cols[i].name, col2 |-> df.cols[j].name]>>
          ELSE <<>>)
         \o StrongFrom(df, i, j + 1)

analyze_correlations(data) ==
    LET numeric_data == NumericData(data)
        strong_correlations == StrongFrom(numeric_data, 1, 2)
    IN  IF Empty(numeric_data) THEN Message(MsgCorrNoNumeric)
        ELSE IF Len(numeric_data.cols) < 2 THEN Message(MsgCorrNeedTwo)
        ELSE Report(HdrCorrelation,
                    <<[section |-> "matrix", cols |-> Columns(numeric_data)],
                      [section |-> "strong",
                       pairs |-> strong_correlations,
                       none_found |-> strong_correlations = <<>>]>>)

NotNaN(v) == v # NaN

RECURSIVE SortValues(_)
\* a sequence of values in ascending order
SortValues(s) ==
    IF s = <<>> THEN <<>>
    ELSE LET i == CHOOSE i \in 1..Len(s) : \A j \in 1..Len(s) : s[i] <= s[j]
         IN  <<s[i]>> \o SortValues(SubSeq(s, 1, i - 1)
                                    \o SubSeq(s, i + 1, Len(s)))

\* Series.quantile(num / 4), times 4: linear interpolation between the
\* two order statistics around position (m - 1) * num / 4 of the m
\* non-missing values; NaN when there is none
Quantile4(vals, num) ==
    LET v == SortValues(SelectSeq(vals, NotNaN))
        m == Len(v)
        h == num * (m - 1)
        f == h \div 4
        g == h % 4
    IN  IF m = 0 THEN [defined |-> FALSE, q4 |-> 0]
        ELSE [defined |-> TRUE,
              q4 |-> IF g = 0 THEN 4 * v[f + 1]
                     ELSE 4 * v[f + 1] + g * (v[f + 2] - v[f + 1])]

\* variant: a value equal to a bound counts as an outlier
OutlierCount_Inclusive(vals, defined, lower8, upper8) ==
    IF ~defined THEN 0
    ELSE Cardinality({ r \in 1..Len(vals) :
                         /\ vals[r] # NaN
                         /\ \/ 8 * vals[r] <= lower8
                            \/ 8 * vals[r] >= upper8 })

\* len(numeric_data[(col < lower_bound) | (col > upper_bound)]); both
\* comparisons are false on a missing cell and against a NaN bound.
\* The bounds are kept times 8.
OutlierCount(vals, defined, lower8, upper8) ==
    IF ~defined THEN 0
    ELSE Cardinality({ r \in 1..Len(vals) :
                         /\ vals[r] # NaN
                         /\ \/ 8 * vals[r] < lower8
                            \/ 8 * vals[r] > upper8 })

\* one pass of the loop over the numeric columns: Q1, Q3, IQR, the two
\* bounds (times 8) and the count
OutlierSection(col) ==
    LET Q1     == Quantile4(col.vals, 1)
        Q3     == Quantile4(col.vals, 3)
        IQR4   == Q3.q4 - Q1.q4
        lower8 == 2 * Q1.q4 - 3 * IQR4
        upper8 == 2 * Q3.q4 + 3 * IQR4
    IN  [section |-> "column", name |-> col.name, defined |-> Q1.defined,
         lower8 |-> IF Q1.defined THEN lower8 ELSE 0,
         upper8 |-> IF Q1.defined THEN upper8 ELSE 0,
         count |-> OutlierCount(col.vals, Q1.defined, lower8, upper8)]

\* variant: the numeric_data.empty test is missing
detect_outliers_NoEmptyCheck(data) ==
    LET numeric_data == NumericData(data)
    IN  Report(HdrOutliers,
               [i \in 1..Len(numeric_data.cols) |->
                   OutlierSection(numeric_data.cols[i])])

detect_outliers(data) ==
    LET numeric_data == NumericData(data)
    IN  IF Empty(numeric_data) THEN Message(MsgOutlierNoNumeric)
        ELSE Report(HdrOutliers,
                    [i \in 1..Len(numeric_data.cols) |->
                        OutlierSection(numeric_data.cols[i])])

(***************************************************************************)
(* SpecCore: the engine and the reporter called directly, on every table   *)
(* and every request of the bounded input sets.                            *)
(***************************************************************************)
ChartTags == SupportedKinds \cup {"radar"}

RefNames == { ColNames[i] : i \in 1..MaxCols }

Requests ==
    [chart_type : ChartTags,
     x_col      : RefNames \cup {"", "zz"},
     y_col      : RefNames \cup {"", "zz"},
     group_col  : RefNames \cup {None, "zz"}]

NoRequest == [chart_type |-> "", x_col |-> "", y_col |-> "",
              group_col |-> None]

NoOutcome == [op |-> "none"]

\* the shell at rest, as __init__ leaves it
ShellInit ==
    /\ current_data = NoTable
    /\ stack = <<>>
    /\ file_format = "auto"
    /\ file_path_var = ""
    /\ axis_values = <<>>
    /\ x_axis = ""
    /\ y_axis = ""
    /\ group_by = ""
    /\ chart_type = "line"
    /\ status_var = "ready"
    /\ figure = "blank"
    /\ analysis_text = [kind |-> "empty", header |-> "", text |-> "",
                        body |-> <<>>]
    /\ dialog = "none"
    /\ exported = [what |-> "none", content |-> ""]
    /\ events = 0

CoreInit ==
    /\ table \in CoreTables
    /\ request \in Requests \cup {NoRequest}
    /\ outcome = NoOutcome
    /\ ShellInit

CallCreateChart ==
    /\ request # NoRequest
    /\ outcome' = [op |-> "create_chart",
                   res |-> create_chart(table, request.chart_type,
                                        request.x_col, request.y_col,
                                        request.group_col)]
    /\ UNCHANGED <<table, request>>
    /\ UNCHANGED shellVars

CallAnalyzeCorrelations ==
    /\ request = NoRequest
    /\ outcome' = [op |-> "analyze_correlations",
                   res |-> analyze_correlations(table)]
    /\ UNCHANGED <<table, request>>
    /\ UNCHANGED shellVars

CallDetectOutliers ==
    /\ request = NoRequest
    /\ outcome' = [op |-> "detect_outliers", res |-> detect_outliers(table)]
    /\ UNCHANGED <<table, request>>
    /\ UNCHANGED shellVars

CoreNext ==
    \/ CallCreateChart
    \/ CallAnalyzeCorrelations
    \/ CallDetectOutliers

SpecCore == CoreInit /\ [][CoreNext]_vars

(***************************************************************************)
(* The shell, DataVisualizationApp (gui_components.py).                    *)
(*                                                                         *)
(* Tk runs one callback at a time from mainloop, but load_data_file and    *)
(* generate_chart call self.root.update() in the middle of their body,     *)
(* and update() dispatches whatever events are pending before it returns.  *)
(* stack holds the callbacks that have started and not returned; every     *)
(* frame below the top is waiting inside update() for the callbacks above  *)
(* it.  File dialogs and message boxes are modal and are part of the step  *)
(* that opens them.  The file readers are external: a file is its name,    *)
(* its extension, its actual format and what its reader yields.            *)
(***************************************************************************)
StReady      == "ready"
StLoading    == "loading data..."
StLoaded     == "data loaded"
StLoadFailed == "data load failed"
StGenerating == "generating chart..."
StChartDone  == "chart generated"
StChartFailed == "chart generation failed"
StChartExported == "chart exported"
StDataExported  == "data exported"

DlgNone          == "none"
DlgLoadFirst     == "warning: load a data file first"
DlgUnsupported   == "error: unsupported file format"
DlgLoadFailed    == "error: loading the file failed"
DlgChartFailed   == "error: generating the chart failed"
DlgCleaning      == "info: data cleaning in development"
DlgTransform     == "info: data transformation in development"
DlgReport        == "info: report generation in development"
DlgChartExported == "success: chart exported"
DlgDataExported  == "success: data exported"
DlgExportFailed  == "error: export failed"

HdrOverview    == "=== data overview ==="
HdrDescriptive == "=== descriptive statistics ==="
HdrMissing     == "=== missing value analysis ==="

NoText == [kind |-> "empty", header |-> "", text |-> "", body |-> <<>>]

\* the overview, whose content the shell only displays
get_data_overview(data) ==
    Report(HdrOverview, <<[section |-> "columns", cols |-> Columns(data)]>>)

\* Series.value_counts() entry helpers: occurrences of v and the row of
\* its first occurrence
CountOf(vals, v) == Cardinality({ r \in 1..Len(vals) : vals[r] = v })

FirstRow(vals, v) ==
    CHOOSE r \in 1..Len(vals) :
        vals[r] = v /\ \A q \in 1..(r - 1) : vals[q] # v

RECURSIVE ByFrequency(_, _)
\* the values of S by descending count, equal counts in order of first
\* occurrence
ByFrequency(vals, S) ==
    IF S = {} THEN <<>>
    ELSE LET v == CHOOSE v \in S : \A w \in S \ {v} :
                     \/ CountOf(vals, v) > CountOf(vals, w)
                     \/ /\ CountOf(vals, v) = CountOf(vals, w)
                        /\ FirstRow(vals, v) < FirstRow(vals, w)
         IN  <<[value |-> v, count |-> CountOf(vals, v)]>>
                 \o ByFrequency(vals, S \ {v})

\* data[col].value_counts(): missing cells are dropped
value_counts(vals) ==
    ByFrequency(vals, { vals[r] : r \in 1..Len(vals) } \ {NaN})

\* Series.head(10)
Head10(s) == SubSeq(s, 1, IF Len(s) < 10 THEN Len(s) ELSE 10)

\* data.select_dtypes(include=['object', 'category'])
CategoricalData(data) ==
    [cols |-> SelectSeq2(data.cols,
                         [i \in 1..Len(data.cols) |-> ~data.cols[i].numeric]),
     nrows |-> data.nrows]

\* variant: the remainder line is written from 10 distinct values on
CategoricalSection_From10(col) ==
    LET counts == value_counts(col.vals)
    IN  [name |-> col.name,
         listed |-> Head10(counts),
         remainder |-> IF Len(counts) >= 10
                       THEN <<Len(counts) - 10>> ELSE <<>>]

\* one pass of the loop over the categorical columns; remainder holds
\* the number of the '... and N other categories' line when it is written
CategoricalSection(col) ==
    LET counts == value_counts(col.vals)
    IN  [name |-> col.name,
         listed |-> Head10(counts),
         remainder |-> IF Len(counts) > 10
                       THEN <<Len(counts) - 10>> ELSE <<>>]

get_descriptive_statistics(data) ==
    LET numeric_data     == NumericData(data)
        categorical_data == CategoricalData(data)
    IN  Report(HdrDescriptive,
               (IF ~Empty(numeric_data)
                THEN <<[section |-> "numeric",
                        cols |-> Columns(numeric_data)]>>
                ELSE <<>>)
               \o
               (IF ~Empty(categorical_data)
                THEN <<[section |-> "categorical",
                        cols |-> [i \in 1..Len(categorical_data.cols) |->
                                    CategoricalSection(
                                        categorical_data.cols[i])]]>>
                ELSE <<>>))

\* Series.isnull().sum() of one column
MissingCount(col) ==
    Cardinality({ r \in 1..Len(col.vals) : col.vals[r] = NaN })

\* m / r * 100 to 2 decimals, in hundredths (Series.round(2) and the
\* .2f format both round to nearest, ties to even); NaN for 0 / 0
Percent(m, r) ==
    IF r = 0 THEN [defined |-> FALSE, hundredths |-> 0]
    ELSE LET q   == (10000 * m) \div r
             rem == (10000 * m) % r
         IN  [defined |-> TRUE,
              hundredths |-> IF 2 * rem > r \/ (2 * rem = r /\ q % 2 = 1)
                             THEN q + 1 ELSE q]

\* variant: the per-column percentage is taken over all cells
analyze_missing_values_OverCells(data) ==
    LET total_cells   == data.nrows * Len(data.cols)
        missing_count == [i \in 1..Len(data.cols) |->
                             MissingCount(data.cols[i])]
        total_missing == SumFn(missing_count, 1..Len(data.cols))
        missing_df    ==
            SelectSeq2([i \in 1..Len(data.cols) |->
                           [name |-> data.cols[i].name,
                            count |-> missing_count[i],
                            percent |-> Percent(missing_count[i],
                                                total_cells)]],
                       [i \in 1..Len(data.cols) |-> missing_count[i] > 0])
    IN  Report(HdrMissing,
               <<[section |-> "totals",
                  total_cells |-> total_cells,
                  total_missing |-> total_missing,
                  percent |-> Percent(total_missing, total_cells)],
                 [section |-> "columns",
                  rows |-> missing_df,
                  no_missing |-> missing_df = <<>>]>>)

\* np.product(data.shape) is taken as the product of the two lengths
analyze_missing_values(data) ==
    LET total_cells   == data.nrows * Len(data.cols)
        missing_count == [i \in 1..Len(data.cols) |->
                             MissingCount(data.cols[i])]
        total_missing == SumFn(missing_count, 1..Len(data.cols))
        missing_df    ==
            SelectSeq2([i \in 1..Len(data.cols) |->
                           [name |-> data.cols[i].name,
                            count |-> missing_count[i],
                            percent |-> Percent(missing_count[i],
                                                data.nrows)]],
                       [i \in 1..Len(data.cols) |-> missing_count[i] > 0])
    IN  Report(HdrMissing,
               <<[section |-> "totals",
                  total_cells |-> total_cells,
                  total_missing |-> total_missing,
                  percent |-> Percent(total_missing, total_cells)],
                 [section |-> "columns",
                  rows |-> missing_df,
                  no_missing |-> missing_df = <<>>]>>)

T_ab == [cols |-> <<[name |-> "a", numeric |-> TRUE, vals |-> <<1, 2>>],
                    [name |-> "b", numeric |-> TRUE, vals |-> <<1, 1>>]>>,
         nrows |-> 2]

T_c  == [cols |-> <<[name |-> "c", numeric |-> FALSE, vals |-> <<1, 2>>]>>,
         nrows |-> 2]

Malformed == [cols |-> <<>>, nrows |-> 0, malformed |-> TRUE]

NoFile == [name |-> "", ext |-> "", fmt |-> "", content |-> Malformed]

Files ==
    { [name |-> "ab.txt", ext |-> ".txt",  fmt |-> "CSV",  content |-> T_ab],
      [name |-> "c.json", ext |-> ".json", fmt |-> "JSON", content |-> T_c] }

FileFormats == {"auto", "CSV", "JSON"}

ShellKinds == {"line", "heatmap", "pairplot"}

ChartTargets == {"", "chart.png"}

DataTargets == {"", "data.csv", "data.txt"}

\* filename.endswith('.xlsx') / ('.csv') / ('.json')
HasDataExtension(filename) ==
    filename \in {"data.xlsx", "data.csv", "data.json"}

\* the "auto" branch: the format by file extension, unchanged when no
\* extension matches
DetectFormat(fmt, file) ==
    IF fmt = "auto"
    THEN CASE file.ext \in {".xlsx", ".xls"} -> "Excel"
           [] file.ext = ".csv"               -> "CSV"
           [] file.ext = ".json"              -> "JSON"
           [] OTHER                           -> fmt
    ELSE fmt

\* pd.read_excel / pd.read_csv / json.load on the chosen file; a reader
\* handed a file of another format is taken to raise
ReaderRaises(fmt, file) == file.content = Malformed \/ file.fmt # fmt

\* the event loop hands one more user action to its callback
Dispatched == events < MaxEvents /\ events' = events + 1

Top(st) == st[Len(st)]
Pop(st) == SubSeq(st, 1, Len(st) - 1)
Frame(op, file) == [op |-> op, filename |-> file]

\* update_axis_options, on the table just stored
AxisAfterLoad(data, old_x, old_y) ==
    LET columns == Columns(data)
    IN  [values |-> columns,
         x |-> IF Len(columns) > 0 THEN columns[1] ELSE old_x,
         y |-> IF Len(columns) > 1 THEN columns[2] ELSE old_y]

\* load_data_file up to self.root.update()
load_data_file_start(file) ==
    /\ Dispatched
    /\ Len(stack) < MaxDepth
    /\ IF file = NoFile
       THEN UNCHANGED <<stack, status_var>>
       ELSE /\ status_var' = StLoading
            /\ stack' = Append(stack, Frame("load_data_file", file))
    /\ UNCHANGED <<current_data, file_format, file_path_var, axis_values,
                   x_axis, y_axis, group_by, chart_type, figure,
                   analysis_text, dialog, exported>>
    /\ UNCHANGED coreVars

\* load_data_file from the return of self.root.update() to its end;
\* preview_raises: a widget call of update_data_preview raises
load_data_file_finish(preview_raises) ==
    /\ UNCHANGED events
    /\ stack # <<>>
    /\ Top(stack).op = "load_data_file"
    /\ LET file == Top(stack).filename
           fmt  == DetectFormat(file_format, file)
       IN  IF fmt \notin {"Excel", "CSV", "JSON"}
           THEN /\ dialog' = DlgUnsupported
                /\ UNCHANGED <<current_data, file_path_var, axis_values,
                               x_axis, y_axis, status_var>>
           ELSE IF ReaderRaises(fmt, file)
           THEN /\ dialog' = DlgLoadFailed
                /\ status_var' = StLoadFailed
                /\ UNCHANGED <<current_data, file_path_var, axis_values,
                               x_axis, y_axis>>
           ELSE /\ current_data' = file.content
                /\ file_path_var' = file.name
                /\ IF preview_raises
                   THEN /\ dialog' = DlgLoadFailed
                        /\ status_var' = StLoadFailed
                        /\ UNCHANGED <<axis_values, x_axis, y_axis>>
                   ELSE LET ax == AxisAfterLoad(file.content, x_axis, y_axis)
                        IN  /\ axis_values' = ax.values
                            /\ x_axis' = ax.x
                            /\ y_axis' = ax.y
                            /\ status_var' = StLoaded
                            /\ UNCHANGED dialog
    /\ stack' = Pop(stack)
    /\ UNCHANGED <<file_format, group_by, chart_type, figure, analysis_text,
                   exported>>
    /\ UNCHANGED coreVars

\* generate_chart up to self.root.update()
generate_chart_start ==
    /\ Dispatched
    /\ Len(stack) < MaxDepth
    /\ IF current_data = NoTable
       THEN /\ dialog' = DlgLoadFirst
            /\ UNCHANGED <<stack, status_var>>
       ELSE /\ status_var' = StGenerating
            /\ stack' = Append(stack, Frame("generate_chart", NoFile))
            /\ UNCHANGED dialog
    /\ UNCHANGED <<current_data, file_format, file_path_var, axis_values,
                   x_axis, y_axis, group_by, chart_type, figure,
                   analysis_text, exported>>
    /\ UNCHANGED coreVars

\* generate_chart from the return of self.root.update() to its end
generate_chart_finish ==
    /\ UNCHANGED events
    /\ stack # <<>>
    /\ Top(stack).op = "generate_chart"
    /\ LET group_col == IF group_by # "" THEN group_by ELSE None
           res == create_chart(current_data, chart_type, x_axis, y_axis,
                               group_col)
       IN  IF res.raised
           THEN /\ figure' = "failed"
                /\ dialog' = DlgChartFailed
                /\ status_var' = StChartFailed
           ELSE /\ figure' = "complete"
                /\ status_var' = StChartDone
                /\ UNCHANGED dialog
    /\ stack' = Pop(stack)
    /\ UNCHANGED <<current_data, file_format, file_path_var, axis_values,
                   x_axis, y_axis, group_by, chart_type, analysis_text,
                   exported>>
    /\ UNCHANGED coreVars

\* what the analysis callbacks and the stubs leave alone
callbackFrame == <<current_data, stack, file_format, file_path_var,
                   axis_values, x_axis, y_axis, group_by, chart_type,
                   status_var, figure, exported>>

\* the five analysis callbacks: the guard, the analyzer call and
\* display_analysis_result
show_data_overview ==
    /\ Dispatched
    /\ IF current_data = NoTable
       THEN dialog' = DlgLoadFirst /\ UNCHANGED analysis_text
       ELSE analysis_text' = get_data_overview(current_data)
            /\ UNCHANGED dialog
    /\ UNCHANGED callbackFrame
    /\ UNCHANGED coreVars

show_descriptive_stats ==
    /\ Dispatched
    /\ IF current_data = NoTable
       THEN dialog' = DlgLoadFirst /\ UNCHANGED analysis_text
       ELSE analysis_text' = get_descriptive_statistics(current_data)
            /\ UNCHANGED dialog
    /\ UNCHANGED callbackFrame
    /\ UNCHANGED coreVars

shell_analyze_correlations ==
    /\ Dispatched
    /\ IF current_data = NoTable
       THEN dialog' = DlgLoadFirst /\ UNCHANGED analysis_text
       ELSE analysis_text' = analyze_correlations(current_data)
            /\ UNCHANGED dialog
    /\ UNCHANGED callbackFrame
    /\ UNCHANGED coreVars

shell_analyze_missing_values ==
    /\ Dispatched
    /\ IF current_data = NoTable
       THEN dialog' = DlgLoadFirst /\ UNCHANGED analysis_text
       ELSE analysis_text' = analyze_missing_values(current_data)
            /\ UNCHANGED dialog
    /\ UNCHANGED callbackFrame
    /\ UNCHANGED coreVars

shell_detect_outliers ==
    /\ Dispatched
    /\ IF current_data = NoTable
       THEN dialog' = DlgLoadFirst /\ UNCHANGED analysis_text
       ELSE analysis_text' = detect_outliers(current_data)
            /\ UNCHANGED dialog
    /\ UNCHANGED callbackFrame
    /\ UNCHANGED coreVars

\* variant: the stub is implemented as dropna() on the table itself
clean_data_DropsRows ==
    /\ Dispatched
    /\ dialog' = IF current_data = NoTable THEN DlgLoadFirst ELSE DlgCleaning
    /\ current_data' =
          IF current_data = NoTable THEN NoTable
          ELSE [cols |-> [i \in 1..Len(current_data.cols) |->
                            [name |-> current_data.cols[i].name,
                             numeric |-> current_data.cols[i].numeric,
                             vals |-> <<>>]],
                nrows |-> 0]
    /\ UNCHANGED <<stack, file_format, file_path_var, axis_values, x_axis,
                   y_axis, group_by, chart_type, status_var, figure,
                   exported, analysis_text>>
    /\ UNCHANGED coreVars

\* the three stubs: the guard and an information box
clean_data ==
    /\ Dispatched
    /\ dialog' = IF current_data = NoTable THEN DlgLoadFirst ELSE DlgCleaning
    /\ UNCHANGED callbackFrame
    /\ UNCHANGED analysis_text
    /\ UNCHANGED coreVars

transform_data ==
    /\ Dispatched
    /\ dialog' = IF current_data = NoTable THEN DlgLoadFirst ELSE DlgTransform
    /\ UNCHANGED callbackFrame
    /\ UNCHANGED analysis_text
    /\ UNCHANGED coreVars

generate_report ==
    /\ Dispatched
    /\ dialog' = IF current_data = NoTable THEN DlgLoadFirst ELSE DlgReport
    /\ UNCHANGED callbackFrame
    /\ UNCHANGED analysis_text
    /\ UNCHANGED coreVars

\* variant: export_chart without the check of current_data
export_chart_NoGuard(filename, io_raises) ==
    /\ Dispatched
    /\ IF filename = ""
       THEN UNCHANGED <<dialog, status_var, exported>>
       ELSE IF io_raises
       THEN /\ dialog' = DlgExportFailed
            /\ UNCHANGED <<status_var, exported>>
       ELSE /\ exported' = [what |-> "chart", content |-> figure]
            /\ dialog' = DlgChartExported
            /\ status_var' = StChartExported
    /\ UNCHANGED <<current_data, stack, file_format, file_path_var,
                   axis_values, x_axis, y_axis, group_by, chart_type,
                   figure, analysis_text>>
    /\ UNCHANGED coreVars

\* export_chart; io_raises: savefig raises
export_chart(filename, io_raises) ==
    /\ Dispatched
    /\ IF current_data = NoTable
       THEN /\ dialog' = DlgLoadFirst
            /\ UNCHANGED <<status_var, exported>>
       ELSE IF filename = ""
       THEN UNCHANGED <<dialog, status_var, exported>>
       ELSE IF io_raises
       THEN /\ dialog' = DlgExportFailed
            /\ UNCHANGED <<status_var, exported>>
       ELSE /\ exported' = [what |-> "chart", content |-> figure]
            /\ dialog' = DlgChartExported
            /\ status_var' = StChartExported
    /\ UNCHANGED <<current_data, stack, file_format, file_path_var,
                   axis_values, x_axis, y_axis, group_by, chart_type,
                   figure, analysis_text>>
    /\ UNCHANGED coreVars

\* export_data; io_raises: the writer raises.  A name with none of the
\* three extensions writes nothing and still reports success.
export_data(filename, io_raises) ==
    /\ Dispatched
    /\ IF current_data = NoTable
       THEN /\ dialog' = DlgLoadFirst
            /\ UNCHANGED <<status_var, exported>>
       ELSE IF filename = ""
       THEN UNCHANGED <<dialog, status_var, exported>>
       ELSE IF HasDataExtension(filename) /\ io_raises
       THEN /\ dialog' = DlgExportFailed
            /\ UNCHANGED <<status_var, exported>>
       ELSE /\ exported' = IF HasDataExtension(filename)
                           THEN [what |-> "data", content |-> "table"]
                           ELSE exported
            /\ dialog' = DlgDataExported
            /\ status_var' = StDataExported
    /\ UNCHANGED <<current_data, stack, file_format, file_path_var,
                   axis_values, x_axis, y_axis, group_by, chart_type,
                   figure, analysis_text>>
    /\ UNCHANGED coreVars

\* the widgets the user sets between callbacks
SelectFileFormat(fmt) ==
    /\ UNCHANGED events
    /\ file_format' = fmt
    /\ UNCHANGED <<current_data, stack, file_path_var, axis_values, x_axis,
                   y_axis, group_by, chart_type, status_var, figure,
                   analysis_text, dialog, exported>>
    /\ UNCHANGED coreVars

SelectChartType(kind) ==
    /\ UNCHANGED events
    /\ chart_type' = kind
    /\ UNCHANGED <<current_data, stack, file_format, file_path_var,
                   axis_values, x_axis, y_axis, group_by, status_var, figure,
                   analysis_text, dialog, exported>>
    /\ UNCHANGED coreVars

SelectAxes(x, y, g) ==
    /\ UNCHANGED events
    /\ x_axis' = x
    /\ y_axis' = y
    /\ group_by' = g
    /\ UNCHANGED <<current_data, stack, file_format, file_path_var,
                   axis_values, chart_type, status_var, figure,
                   analysis_text, dialog, exported>>
    /\ UNCHANGED coreVars

AxisChoices == { axis_values[i] : i \in 1..Len(axis_values) }

Init ==
    /\ table = [cols |-> <<>>, nrows |-> 0]
    /\ request = NoRequest
    /\ outcome = NoOutcome
    /\ ShellInit

Next ==
    \/ \E file \in Files \cup {NoFile} : load_data_file_start(file)
    \/ \E preview_raises \in BOOLEAN : load_data_file_finish(preview_raises)
    \/ generate_chart_start
    \/ generate_chart_finish
    \/ show_data_overview
    \/ show_descriptive_stats
    \/ shell_analyze_correlations
    \/ shell_analyze_missing_values
    \/ shell_detect_outliers
    \/ clean_data
    \/ transform_data
    \/ generate_report
    \/ \E filename \in ChartTargets, io_raises \in BOOLEAN :
          export_chart(filename, io_raises)
    \/ \E filename \in DataTargets, io_raises \in BOOLEAN :
          export_data(filename, io_raises)
    \/ \E fmt \in FileFormats : SelectFileFormat(fmt)
    \/ \E kind \in ShellKinds : SelectChartType(kind)
    \/ \E x \in AxisChoices \cup {x_axis}, y \in AxisChoices \cup {y_axis},
          g \in AxisChoices \cup {"", group_by} : SelectAxes(x, y, g)

Spec == Init /\ [][Next]_vars

(***************************************************************************)
(* The reporter called directly on tables with enough rows for quantiles,  *)
(* coefficients and more than ten categories (SpecStats)                   *)
(***************************************************************************)
\* cell sequences a column is cut from
StatBases ==
    << <<1, 2, 3, 4, 5, 6, 7, 8, 9, 10, 11, 12>>,
       <<2, 3, 1, 4, 5, 6, 7, 8, 9, 10, 11, 11>>,
       <<12, 11, 10, 9, 8, 7, 6, 5, 4, 3, 2, 1>>,
       <<3, 3, 3, 3, 3, 3, 3, 3, 3, 3, 3, 3>>,
       <<1, NaN, 3, NaN, 5, 6, 7, 8, 9, 10, 11, 12>>,
       <<NaN, NaN, NaN, NaN, NaN, NaN, NaN, NaN, NaN, NaN, NaN, NaN>>,
       <<2, 2, 2, 4, 7, 1, 1, 2, 2, 3, 3, 4>>,
       <<1, 5, 5, 5, 5, 9, 9, 9, 9, 9, 9, 9>>,
       <<1, 1, 2, 3, 4, 5, 6, 7, 8, 9, 10, 10>> >>

\* row counts of the tables
StatLengths == {0, 2, 5, 12}

StatColumns(n) ==
    { [numeric |-> b, vals |-> SubSeq(StatBases[i], 1, n)] :
        b \in BOOLEAN, i \in 1..Len(StatBases) }

\* the tables of at most maxc columns
StatTables(maxc) ==
    UNION { UNION { { [cols |-> [i \in 1..k |->
                                   [name |-> ColNames[i],
                                    numeric |-> f[i].numeric,
                                    vals |-> f[i].vals]],
                       nrows |-> n]
                      : f \in [1..k -> StatColumns(n)] }
                    : k \in 0..maxc }
            : n \in StatLengths }

StatInit ==
    /\ table \in StatTables(MaxCols)
    /\ request = NoRequest
    /\ outcome = NoOutcome
    /\ ShellInit

CallDescriptiveStatistics ==
    /\ request = NoRequest
    /\ outcome' = [op |-> "get_descriptive_statistics",
                   res |-> get_descriptive_statistics(table)]
    /\ UNCHANGED <<table, request>>
    /\ UNCHANGED shellVars

CallAnalyzeMissingValues ==
    /\ request = NoRequest
    /\ outcome' = [op |-> "analyze_missing_values",
                   res |-> analyze_missing_values(table)]
    /\ UNCHANGED <<table, request>>
    /\ UNCHANGED shellVars

StatNext ==
    \/ CallDescriptiveStatistics
    \/ CallAnalyzeCorrelations
    \/ CallAnalyzeMissingValues
    \/ CallDetectOutliers

SpecStats == StatInit /\ [][StatNext]_vars

(***************************************************************************)
(* Properties of the engine and the reporter (SpecCore)                    *)
(***************************************************************************)
ChartDone == outcome.op = "create_chart"

NumericCount(data) ==
    Cardinality({ i \in 1..Len(data.cols) : data.cols[i].numeric })

AbsentRef(data, c) == Truthy(c) /\ ~HasCol(data, c)

GroupKinds == {"line", "bar", "scatter", "area", "pairplot"}

\* C1: create_chart with a tag outside the ten supported tags raises, the
\* message carries the tag, no strategy has drawn anything, the labeling
\* pass has not run and no other chart kind was drawn in its place.
C1_UnknownTagRejected ==
    (ChartDone /\ request.chart_type \notin SupportedKinds) =>
        /\ outcome.res.raised
        /\ \E i \in 1..Len(outcome.res.text) :
               outcome.res.text[i] = request.chart_type
        /\ outcome.res.text[1] = MsgCreateFailed
        /\ outcome.res.calls = <<>>
        /\ ~outcome.res.labeled
        /\ outcome.res.labels = NoLabels

C1_Witness ==
    /\ ChartDone
    /\ request.chart_type = "radar"
    /\ HasCol(table, request.x_col)
    /\ HasCol(table, request.y_col)
    /\ outcome.res.raised

\* C2 (as claimed): for every supported kind, an x or y column name that is
\* not a column of the table makes create_chart raise.
C2_AbsentAxisColumnRejected ==
    (/\ ChartDone
     /\ request.chart_type \in SupportedKinds
     /\ (AbsentRef(table, request.x_col) \/ AbsentRef(table, request.y_col)))
        => outcome.res.raised

C8_NoNumericMessage ==
    /\ (outcome.op = "analyze_correlations" /\ NumericCount(table) = 0)
          => outcome.res = Message(MsgCorrNoNumeric)
    /\ (outcome.op = "detect_outliers" /\ NumericCount(table) = 0)
          => outcome.res = Message(MsgOutlierNoNumeric)
    /\ outcome.op \in {"analyze_correlations", "detect_outliers"}
          => (outcome.res.kind = "report" => outcome.res.body # <<>>)

C8_Witness ==
    /\ outcome.op = "detect_outliers"
    /\ NumericCount(table) = 0
    /\ Len(table.cols) = MaxCols
    /\ table.nrows = MaxRows
    /\ outcome.res.kind = "message"

IsPreconditionFailure(res) ==
    /\ res.raised
    /\ res.text \in {<<MsgCreateFailed, MsgHeatmapNoNumeric>>,
                      <<MsgCreateFailed, MsgPairNoNumeric>>,
                      <<MsgCreateFailed, MsgPairNeedTwo>>}

\* C9 (as claimed): heatmap raises its "no numeric data" failure exactly
\* when the table has 0 numeric columns; pairplot raises "no numeric data"
\* with 0 numeric columns, "need at least two" with 1, and no precondition
\* failure with 2 or more, when it plots the first two numeric columns; a
\* precondition failure leaves no rendering call and no labels.
C9_DispatcherPreconditions ==
    ChartDone =>
        LET n   == NumericCount(table)
            res == outcome.res
            num == NumericData(table)
        IN  /\ request.chart_type = "heatmap" =>
                  /\ n = 0 => /\ res.text = <<MsgCreateFailed, MsgHeatmapNoNumeric>>
                              /\ res.raised /\ res.calls = <<>> /\ ~res.labeled
                  /\ n >= 1 => ~IsPreconditionFailure(res)
            /\ request.chart_type = "pairplot" =>
                  /\ n = 0 => /\ res.text = <<MsgCreateFailed, MsgPairNoNumeric>>
                              /\ res.raised /\ res.calls = <<>> /\ ~res.labeled
                  /\ n = 1 => /\ res.text = <<MsgCreateFailed, MsgPairNeedTwo>>
                              /\ res.raised /\ res.calls = <<>> /\ ~res.labeled
                  /\ n >= 2 => /\ ~IsPreconditionFailure(res)
                               /\ Len(res.calls) = 1
                               /\ res.calls[1].x = num.cols[1].name
                               /\ res.calls[1].y = num.cols[2].name

\* C10 (as claimed): analyze_correlations picks its outcome by the number
\* of numeric columns alone: 0 gives the "no numeric data" message, 1 the
\* "need at least two" message, 2 or more the full report.
C10_CorrelationOutcomeByCount ==
    outcome.op = "analyze_correlations" =>
        LET n == NumericCount(table)
        IN  /\ n = 0 => outcome.res = Message(MsgCorrNoNumeric)
            /\ n = 1 => outcome.res = Message(MsgCorrNeedTwo)
            /\ n >= 2 => outcome.res.kind = "report"

(***************************************************************************)
(* Properties of the shell (Spec)                                          *)
(***************************************************************************)
\* C4 (as claimed): current_data changes only in a load that is reported
\* as successful; a load that ends with the failure message leaves it as it
\* was.
C4_TableChangesOnlyOnReportedSuccess ==
    [][current_data' # current_data => status_var' = StLoaded]_vars

\* C5: no analysis, chart, export or stub callback changes current_data:
\* the only step that changes it is the return of a load_data_file call.
C5_OnlyLoadChangesTable ==
    [][current_data' # current_data =>
          /\ stack # <<>>
          /\ Top(stack).op = "load_data_file"
          /\ stack' = Pop(stack)]_vars

C5_Witness ==
    /\ current_data = T_c
    /\ analysis_text.kind = "report"
    /\ dialog = DlgCleaning
    /\ stack = <<>>
    /\ events = 3

\* C6 (as claimed): export_chart never writes, and reports as a success, a
\* figure that generate_chart cleared and then failed to draw.
C6_FailedChartNeverExported ==
    ~(exported.what = "chart" /\ exported.content = "failed")

\* C7 (as claimed): a callback starts only when no other callback has
\* started and not yet returned.
C7_CallbacksSerialized ==
    [][events' # events => stack = <<>>]_vars

(***************************************************************************)
(* Series of a line chart (SpecCore)                                       *)
(***************************************************************************)
\* the distinct non-missing values of a column, as the claim counts them
DistinctValues(data, c) ==
    { Col(data, c).vals[r] : r \in 1..data.nrows } \ {NaN}

SeqToSet(s) == { s[i] : i \in 1..Len(s) }

\* C14: a line chart with x and y present and no group column issues one
\* plot call over all rows and no legend; with a group column of the table
\* that has k distinct non-missing values it issues k plot calls, one per
\* value, labelled with the value and holding exactly the rows that carry
\* it, and then one legend call.
C14_LineSeries ==
    (/\ ChartDone
     /\ request.chart_type = "line"
     /\ HasCol(table, request.x_col)
     /\ HasCol(table, request.y_col)) =>
        LET calls == outcome.res.calls
            g     == request.group_col
        IN  /\ ~outcome.res.raised
            /\ ~Truthy(g) =>
                  /\ Len(calls) = 1
                  /\ calls[1].fn = "plot"
                  /\ calls[1].label = NoLabel
                  /\ SeqToSet(calls[1].rows) = 1..table.nrows
                  /\ Len(calls[1].rows) = table.nrows
            /\ (Truthy(g) /\ HasCol(table, g)) =>
                  LET k == Cardinality(DistinctValues(table, g))
                  IN  /\ Len(calls) = k + 1
                      /\ calls[k + 1].fn = "legend"
                      /\ \A i \in 1..k :
                            /\ calls[i].fn = "plot"
                            /\ calls[i].x = request.x_col
                            /\ calls[i].y = request.y_col
                            /\ calls[i].label \in DistinctValues(table, g)
                            /\ SeqToSet(calls[i].rows) =
                                  { r \in 1..table.nrows :
                                      Col(table, g).vals[r] = calls[i].label }
                            /\ Len(calls[i].rows) =
                                  Cardinality(SeqToSet(calls[i].rows))
                      /\ { calls[i].label : i \in 1..k } =
                            DistinctValues(table, g)

C14_Witness ==
    /\ ChartDone
    /\ request.chart_type = "line"
    /\ HasCol(table, request.x_col)
    /\ HasCol(table, request.y_col)
    /\ HasCol(table, request.group_col)
    /\ Cardinality(DistinctValues(table, request.group_col)) = 2
    /\ Len(outcome.res.calls) = 3

(***************************************************************************)
(* Selections, status bar and the guard of the callbacks (Spec)            *)
(***************************************************************************)
\* C16: once a load has ended in success and no callback is in flight, the
\* x, y and group selections are each empty or a column of the loaded
\* table.
C16_SelectionsNameLoadedColumns ==
    (/\ stack = <<>>
     /\ current_data # NoTable
     /\ status_var = StLoaded) =>
        /\ x_axis \in {""} \cup ColumnSet(current_data)
        /\ y_axis \in {""} \cup ColumnSet(current_data)
        /\ group_by \in {""} \cup ColumnSet(current_data)

\* C17: the step on which load_data_file returns leaves the status bar at
\* the load-success or the load-failure text, and the step on which
\* generate_chart returns leaves it at the done or the failed text.
C17_StatusSettledOnReturn ==
    [][(stack # <<>> /\ stack' = Pop(stack)) =>
          /\ Top(stack).op = "load_data_file" =>
                status_var' \in {StLoaded, StLoadFailed}
          /\ Top(stack).op = "generate_chart" =>
                status_var' \in {StChartDone, StChartFailed}]_vars

\* C18: while current_data is None, a dispatched callback either enters
\* load_data_file (or is its cancelled dialog) or shows the 'load a file
\* first' warning and changes nothing else; the figure, the analysis text
\* and the exported file stay as they were, and no generate_chart call
\* reaches the visualizer.
C18_NoTableOnlyWarns ==
    [][(current_data = NoTable /\ events' # events) =>
          /\ figure' = figure
          /\ analysis_text' = analysis_text
          /\ exported' = exported
          /\ current_data' = NoTable
          /\ \A i \in 1..Len(stack') : stack'[i].op # "generate_chart"
          /\ \/ /\ Len(stack') = Len(stack) + 1
                /\ Pop(stack') = stack
                /\ Top(stack').op = "load_data_file"
                /\ status_var' = StLoading
                /\ dialog' = dialog
             \/ /\ stack' = stack
                /\ status_var' = status_var
                /\ dialog' \in {dialog, DlgLoadFirst}
                /\ <<file_format, file_path_var, axis_values, x_axis,
                     y_axis, group_by, chart_type>>' =
                   <<file_format, file_path_var, axis_values, x_axis,
                     y_axis, group_by, chart_type>>]_vars

C18_Witness ==
    /\ current_data = NoTable
    /\ status_var = StLoadFailed
    /\ dialog = DlgLoadFirst
    /\ stack = <<>>

(***************************************************************************)
(* Properties of the reports (SpecStats)                                   *)
(***************************************************************************)
CorrDone == outcome.op = "analyze_correlations"

ColIndex(df, c) == CHOOSE i \in 1..Len(df.cols) : df.cols[i].name = c

\* |r| > 0.7 by the sums of the textbook formula, over the rows where
\* both columns hold a value:
\*   r = (n Sxy - Sx Sy) / sqrt((n Sxx - Sx^2) (n Syy - Sy^2))
StronglyCorrelated(xs, ys) ==
    LET rows == { r \in 1..Len(xs) : xs[r] # NaN /\ ys[r] # NaN }
        n    == Cardinality(rows)
        Sx   == SumFn(xs, rows)
        Sy   == SumFn(ys, rows)
        Sxy  == SumFn([r \in rows |-> xs[r] * ys[r]], rows)
        Sxx  == SumFn([r \in rows |-> xs[r] * xs[r]], rows)
        Syy  == SumFn([r \in rows |-> ys[r] * ys[r]], rows)
        cxy  == n * Sxy - Sx * Sy
        cxx  == n * Sxx - Sx * Sx
        cyy  == n * Syy - Sy * Sy
    IN  n > 0 /\ cxx > 0 /\ cyy > 0 /\ 100 * cxy * cxy > 49 * cxx * cyy

ExpectedStrong(df) ==
    { p \in (1..Len(df.cols)) \X (1..Len(df.cols)) :
        /\ p[1] < p[2]
        /\ StronglyCorrelated(df.cols[p[1]].vals, df.cols[p[2]].vals) }

\* the strong-correlation part of a correlation report lists exactly the
\* expected pairs, once each, in loop order, or says that there is none
StrongListExact(df, res) ==
    LET strong == res.body[2]
        pairs  == strong.pairs
        at(k)  == <<ColIndex(df, pairs[k].col1), ColIndex(df, pairs[k].col2)>>
    IN  /\ strong.section = "strong"
        /\ { at(k) : k \in 1..Len(pairs) } = ExpectedStrong(df)
        /\ Len(pairs) = Cardinality(ExpectedStrong(df))
        /\ \A k \in 1..Len(pairs) : at(k)[1] < at(k)[2]
        /\ \A k, l \in 1..Len(pairs) :
              k < l => \/ at(k)[1] < at(l)[1]
                       \/ at(k)[1] = at(l)[1] /\ at(k)[2] < at(l)[2]
        /\ strong.none_found <=> ExpectedStrong(df) = {}

\* C11: for a table with two or more numeric columns analyze_correlations
\* returns a report whose strong-correlation list holds exactly the pairs
\* of distinct numeric columns with |r| > 0.7 (0.7 itself and an undefined
\* coefficient excluded), each once, in the order i < j, and the 'none
\* found' line when no pair qualifies.
C11_StrongPairsExact ==
    (CorrDone /\ NumericCount(table) >= 2) =>
        /\ outcome.res.kind = "report"
        /\ StrongListExact(NumericData(table), outcome.res)

MissingDone == outcome.op = "analyze_missing_values"

\* number of missing cells of the i-th column of the table
MissingIn(data, i) ==
    Cardinality({ r \in 1..data.nrows : data.cols[i].vals[r] = NaN })

\* p hundredths is 100 * m / r rounded to 2 decimals: within half a
\* hundredth of the quotient
IsRounded2(p, m, r) ==
    /\ r > 0
    /\ 2 * (10000 * m - p * r) <= r
    /\ 2 * (p * r - 10000 * m) <= r

\* C12: analyze_missing_values returns a report for every table, 0 rows
\* or 0 columns included; its total cell count is rows x columns, its
\* total missing count is the sum of the per-column counts, it lists
\* exactly the columns with a missing cell, each with its count m and with
\* 100 * m / rows rounded to 2 decimals, and it carries the 'no missing
\* values' message exactly when no cell of the table is missing.
C12_MissingValueReport ==
    MissingDone =>
        LET res     == outcome.res
            totals  == res.body[1]
            columns == res.body[2]
            rows    == columns.rows
            n       == Len(table.cols)
        IN  /\ res.kind = "report"
            /\ Len(res.body) = 2
            /\ totals.total_cells = table.nrows * n
            /\ totals.total_missing =
                  SumFn([i \in 1..n |-> MissingIn(table, i)], 1..n)
            /\ { rows[k].name : k \in 1..Len(rows) } =
                  { table.cols[i].name :
                      i \in { j \in 1..n : MissingIn(table, j) > 0 } }
            /\ Len(rows) =
                  Cardinality({ j \in 1..n : MissingIn(table, j) > 0 })
            /\ \A k \in 1..Len(rows) :
                  LET i == ColIndex(table, rows[k].name)
                  IN  /\ rows[k].count = MissingIn(table, i)
                      /\ rows[k].percent.defined
                      /\ IsRounded2(rows[k].percent.hundredths,
                                    MissingIn(table, i), table.nrows)
            /\ columns.no_missing <=>
                  \A i \in 1..n : MissingIn(table, i) = 0

\* a table of 12 rows and two columns, one of them with 2 missing cells:
\* 16.67 percent
C12_Witness ==
    /\ MissingDone
    /\ Len(table.cols) = 2
    /\ Len(outcome.res.body[2].rows) = 1
    /\ outcome.res.body[2].rows[1].count = 2
    /\ outcome.res.body[2].rows[1].percent.hundredths = 1667

OutliersDone == outcome.op = "detect_outliers"

\* C13: in an outlier report every numeric column has its own entry whose
\* bounds are Q1 - 1.5 (Q3 - Q1) and Q3 + 1.5 (Q3 - Q1) and whose count is
\* the number of rows with a value strictly below the lower or strictly
\* above the upper bound of that entry; values equal to a bound and
\* missing cells are not counted.  (Quartiles are held times 4, bounds
\* times 8.)
C13_TukeyBoundsAndCount ==
    (OutliersDone /\ outcome.res.kind = "report") =>
        LET df   == NumericData(table)
            body == outcome.res.body
        IN  /\ Len(body) = Len(df.cols)
            /\ \A i \in 1..Len(df.cols) :
                  LET vals == df.cols[i].vals
                      Q1   == Quantile4(vals, 1)
                      Q3   == Quantile4(vals, 3)
                  IN  /\ body[i].name = df.cols[i].name
                      /\ body[i].defined = Q1.defined
                      /\ body[i].defined =>
                            /\ body[i].lower8 =
                                  2 * Q1.q4 - 3 * (Q3.q4 - Q1.q4)
                            /\ body[i].upper8 =
                                  2 * Q3.q4 + 3 * (Q3.q4 - Q1.q4)
                      /\ body[i].count =
                            Cardinality({ r \in 1..Len(vals) :
                               /\ body[i].defined
                               /\ vals[r] # NaN
                               /\ \/ 8 * vals[r] < body[i].lower8
                                  \/ 8 * vals[r] > body[i].upper8 })

\* one column with a value equal to its upper bound and no outlier, next
\* to a column with an outlier
C13_Witness ==
    /\ OutliersDone
    /\ outcome.res.kind = "report"
    /\ Len(outcome.res.body) = 2
    /\ outcome.res.body[1].defined
    /\ outcome.res.body[1].count = 0
    /\ \E r \in 1..table.nrows :
          8 * NumericData(table).cols[1].vals[r] = outcome.res.body[1].upper8
    /\ outcome.res.body[1].upper8 > outcome.res.body[1].lower8
    /\ outcome.res.body[2].count > 0

DescDone == outcome.op = "get_descriptive_statistics"

HasSection(res, name) ==
    \E k \in 1..Len(res.body) : res.body[k].section = name

SectionOf(res, name) ==
    res.body[CHOOSE k \in 1..Len(res.body) : res.body[k].section = name]

\* the table has data of the given kind: a column of that kind and a row
HasData(data, numeric) ==
    /\ data.nrows > 0
    /\ \E i \in 1..Len(data.cols) : data.cols[i].numeric = numeric

Occurrences(vals, v) == Cardinality({ r \in 1..Len(vals) : vals[r] = v })

====
